---- MODULE Spec2Model ----
(***************************************************************************)
(* Model of the `context` fixture of pytest_playwright/asyncio.py          *)
(* (PytestPlaywrightAsyncio.context) over one pytest session.              *)
(*                                                                         *)
(* One session runs a sequence of tests.  For each test the fixture is     *)
(* set up (Setup: the code before `yield context`), the test body opens    *)
(* pages (NewPage: the "page" event handler), and the fixture is torn down *)
(* (Teardown: the code after `yield context`).  Every call the fixture     *)
(* makes on the browser, the context, a page or a video is appended to     *)
(* `calls`, with the path it was given and the exception it raised.        *)
(***************************************************************************)
EXTENDS Naturals, Sequences, FiniteSets

VARIABLES
    pytestconfig,          \* the session's options: [tracing, screenshot, video]
    browser_context_args,  \* the dict object the browser_context_args fixture hands out
    ran,                   \* node ids of the tests whose fixture was set up so far
    pc,                    \* "idle" | "body" | "done" | "raised"
    request,               \* the current test: [nodeid, marker, rep_call]
    context_args,          \* the keyword arguments browser.new_context was called with
    pages,                 \* pages opened in the current context: Seq([video : BOOLEAN])
    calls                  \* calls the fixture made for the current test, in order

vars == <<pytestconfig, browser_context_args, ran, pc, request, context_args, pages, calls>>

----------------------------------------------------------------------------
(* Bounds *)

MaxTests == 2
MaxPages == 2

----------------------------------------------------------------------------
(* Options: pytest_addoption *)

TracingChoices == {"on", "off", "retain-on-failure"}
VideoChoices == {"on", "off", "retain-on-failure"}
ScreenshotChoices == {"on", "off", "only-on-failure"}

Configs == [tracing : TracingChoices, screenshot : ScreenshotChoices, video : VideoChoices]

\* request.node.rep_call: the call-phase report, or no such attribute.
RepCalls == {"passed", "failed", "missing"}

----------------------------------------------------------------------------
(* Test identifiers and slugs.  An identifier is a sequence of characters. *)

\* The tests the session collected, in the order it runs them: three
\* parametrizations t[a_b], t[a-b] and t[a] of one test function.
Collected ==
    << <<"t", "[", "a", "_", "b", "]">>,
       <<"t", "[", "a", "-", "b", "]">>,
       <<"t", "[", "a", "]">> >>

NodeIds == {Collected[i] : i \in 1..Len(Collected)}

SlugChars == {"t", "a", "b"}

\* slugify, step 1: every character outside [a-z0-9] becomes "-".
SlugReplace(s) == [i \in 1..Len(s) |-> IF s[i] \in SlugChars THEN s[i] ELSE "-"]

\* slugify, steps 2 and 3: a "-" survives only after a kept character and
\* before a later one (runs collapse, leading and trailing "-" are stripped).
RECURSIVE SlugKeep(_, _)
SlugKeep(r, i) ==
    IF i > Len(r) THEN <<>>
    ELSE LET keep == \/ r[i] # "-"
                     \/ /\ i > 1
                        /\ r[i - 1] # "-"
                        /\ \E j \in (i + 1)..Len(r) : r[j] # "-"
         IN (IF keep THEN <<r[i]>> ELSE <<>>) \o SlugKeep(r, i + 1)

slugify(s) == SlugKeep(SlugReplace(s), 1)

\* slugify(request.node.nodeid), for the tests of the session.
NodeSlug[n \in NodeIds] == slugify(n)

----------------------------------------------------------------------------
(* Paths: [root, testdir, name]; testdir = <<>> is a file directly in root. *)

OutputDir == "test-results"
ArtifactsDir == "artifacts-tmp"

NoPath == [root |-> "", testdir |-> <<>>, name |-> <<>>]

\* os.path.join(output_dir, slugify(request.node.nodeid), folder_or_file_name)
_build_artifact_test_folder(req, folder_or_file_name) ==
    [root |-> OutputDir, testdir |-> NodeSlug[req.nodeid], name |-> folder_or_file_name]

IndexStr == <<"1", "2", "3", "4", "5">>

\* video.path(): a file the library chose in its own artifacts folder.
video_path(index) ==
    [root |-> ArtifactsDir, testdir |-> <<>>, name |-> <<"video", IndexStr[index], ".webm">>]

\* os.path.basename
basename(p) == p.name

----------------------------------------------------------------------------
(* Dicts are sets of <<key, value>> pairs with one pair per key. *)

EmptyDict == {}

\* dict.update: the keys of e replace those of d.
Update(d, e) == {p \in d : \A q \in e : q[1] # p[1]} \cup e

\* What the browser_context_args fixture builds at the start of the session.
BaseArgs == {<<"base_url", "http://base">>}

\* The browser_context_args fixture is session-scoped: every test of the
\* session receives the one dict object, in the state `current` it is in.
browser_context_args_fixture(current) == current

\* next(request.node.iter_markers("browser_context_args"), None)
NoMarker == [present |-> FALSE, kwargs |-> EmptyDict]
Markers ==
    { NoMarker,
      [present |-> TRUE, kwargs |-> {<<"locale", "de">>, <<"base_url", "http://marker">>}] }

additional_context_args(marker) == IF marker.present THEN marker.kwargs ELSE EmptyDict

----------------------------------------------------------------------------
(* Calls *)

Call(op, page, path, exc) == [op |-> op, page |-> page, path |-> path, exc |-> exc]

\* What page.screenshot can do: succeed, raise the library's Error, or raise
\* something else (the library writes the file itself, so an OSError).
ScreenshotExcs == {"none", "Error", "OSError"}

\* What handling one video can do: succeed, video.path() raises Error,
\* video.save_as raises Error, video.save_as raises something else.
VideoOutcomes == {"ok", "path:Error", "save_as:Error", "save_as:OSError"}

PathExc(o) == IF o = "path:Error" THEN "Error" ELSE "none"
SaveExc(o) == CASE o = "save_as:Error" -> "Error"
                [] o = "save_as:OSError" -> "OSError"
                [] OTHER -> "none"

----------------------------------------------------------------------------
(* The decisions of the fixture *)

\* Variant: tracing is started for "on" only.
capture_trace_OnOnly(config) == config.tracing = "on"

capture_trace(config) == config.tracing \in {"on", "retain-on-failure"}

\* Variant: a node without rep_call counts as passed.
failed_MissingPassed(rep_call) == rep_call = "failed"

failed(rep_call) == IF rep_call # "missing" THEN rep_call = "failed" ELSE TRUE

\* Variant: the outcome of the test is ignored.
retain_trace_IgnoreOutcome(config, isfailed) ==
    config.tracing = "on" \/ config.tracing = "retain-on-failure"

retain_trace(config, isfailed) ==
    config.tracing = "on" \/ (isfailed /\ config.tracing = "retain-on-failure")

\* Variant: the outcome of the test is ignored.
capture_screenshot_IgnoreOutcome(config, isfailed) ==
    config.screenshot = "on" \/ config.screenshot = "only-on-failure"

\* Variant: the decision reads --tracing as well.
capture_screenshot_ReadsTracing(config, isfailed) ==
    \/ config.screenshot = "on"
    \/ config.tracing = "on"
    \/ (isfailed /\ config.screenshot = "only-on-failure")

capture_screenshot(config, isfailed) ==
    config.screenshot = "on" \/ (isfailed /\ config.screenshot = "only-on-failure")

\* Variant: videos are kept for "on" only.
preserve_video_OnOnly(config, isfailed) == config.video = "on"

preserve_video(config, isfailed) ==
    config.video = "on" \/ (isfailed /\ config.video = "retain-on-failure")

human_readable_status(isfailed) == IF isfailed THEN "failed" ELSE "finished"

TraceName == <<"trace.zip">>

screenshot_name(isfailed, index) ==
    <<"test-", human_readable_status(isfailed), "-", IndexStr[index], ".png">>

trace_path(req) == _build_artifact_test_folder(req, TraceName)

screenshot_path(req, isfailed, index) ==
    _build_artifact_test_folder(req, screenshot_name(isfailed, index))

video_save_path(req, index) ==
    _build_artifact_test_folder(req, basename(video_path(index)))

\* `except Error` around page.screenshot and around the video handling.
\* Variant: no `except` clause around page.screenshot.
screenshot_except_None(exc) == FALSE

screenshot_except(exc) == exc = "Error"
video_except(exc) == exc = "Error"

----------------------------------------------------------------------------
(* Setup: the fixture up to `yield context` *)

SetupCalls(config) ==
    <<Call("browser.new_context", 0, NoPath, "none")>>
    \o (IF capture_trace(config)
        THEN <<Call("tracing.start", 0, NoPath, "none")>>
        ELSE <<>>)

Setup(nodeid, marker) ==
    /\ pc \in {"idle", "done", "raised"}
    /\ Cardinality(ran) < MaxTests
    /\ Cardinality(ran) < Len(Collected)
    /\ nodeid = Collected[Cardinality(ran) + 1]
    /\ browser_context_args' =
          Update(browser_context_args_fixture(browser_context_args),
                 additional_context_args(marker))
    /\ context_args' = browser_context_args'
    /\ request' = [nodeid |-> nodeid, marker |-> marker, rep_call |-> "missing"]
    /\ ran' = ran \cup {nodeid}
    /\ pages' = <<>>
    /\ calls' = SetupCalls(pytestconfig)
    /\ pc' = "body"
    /\ UNCHANGED pytestconfig

----------------------------------------------------------------------------
(* The test body: context.on("page", lambda page: pages.append(page)) *)

NewPage(video) ==
    /\ pc = "body"
    /\ Len(pages) < MaxPages
    /\ pages' = Append(pages, [video |-> video])
    /\ UNCHANGED <<pytestconfig, browser_context_args, ran, pc, request, context_args, calls>>

----------------------------------------------------------------------------
(* Teardown: the fixture after `yield context` *)

\* An exception no `except` clause of the fixture caught ends the teardown.
Escaped(cs) ==
    \E i \in 1..Len(cs) :
        /\ cs[i].exc # "none"
        /\ \/ cs[i].op = "page.screenshot" /\ ~screenshot_except(cs[i].exc)
           \/ cs[i].op \in {"video.path", "video.save_as"} /\ ~video_except(cs[i].exc)

TraceStopCalls(config, req, isfailed) ==
    IF capture_trace(config)
    THEN IF retain_trace(config, isfailed)
         THEN <<Call("tracing.stop", 0, trace_path(req), "none")>>
         ELSE <<Call("tracing.stop", 0, NoPath, "none")>>
    ELSE <<>>

\* `for index, page in enumerate(pages)` from page `index` on; sx[i] is what
\* page.screenshot does for page i.  An exception the `except` clause does
\* not catch ends the loop.
RECURSIVE ScreenshotLoop(_, _, _, _, _)
ScreenshotLoop(index, pgs, req, isfailed, sx) ==
    IF index > Len(pgs) THEN <<>>
    ELSE LET c == Call("page.screenshot", index,
                       screenshot_path(req, isfailed, index), sx[index])
         IN IF sx[index] # "none" /\ ~screenshot_except(sx[index])
            THEN <<c>>
            ELSE <<c>> \o ScreenshotLoop(index + 1, pgs, req, isfailed, sx)

ScreenshotCalls(config, req, isfailed, pgs, sx) ==
    IF capture_screenshot(config, isfailed)
    THEN ScreenshotLoop(1, pgs, req, isfailed, sx)
    ELSE <<>>

\* One iteration of the video loop, for a page that has a video.
VideoStep(index, req, o) ==
    <<Call("video.path", index, NoPath, PathExc(o))>>
    \o (IF PathExc(o) = "none"
        THEN <<Call("video.save_as", index, video_save_path(req, index), SaveExc(o))>>
        ELSE <<>>)

\* `for page in pages` from page `index` on; vx[i] is what the video of page
\* i does.
RECURSIVE VideoLoop(_, _, _, _)
VideoLoop(index, pgs, req, vx) ==
    IF index > Len(pgs) THEN <<>>
    ELSE IF ~pgs[index].video THEN VideoLoop(index + 1, pgs, req, vx)
    ELSE LET step == VideoStep(index, req, vx[index])
         IN IF Escaped(step)
            THEN step
            ELSE step \o VideoLoop(index + 1, pgs, req, vx)

VideoCalls(config, req, isfailed, pgs, vx) ==
    IF preserve_video(config, isfailed)
    THEN VideoLoop(1, pgs, req, vx)
    ELSE <<>>

CloseCalls == <<Call("context.close", 0, NoPath, "none")>>

\* Variant: the context is closed before the screenshots are taken.
TeardownCalls_CloseFirst(config, req, rep_call, pgs, sx, vx) ==
    LET isfailed == failed(rep_call)
        t == TraceStopCalls(config, req, isfailed)
        s == ScreenshotCalls(config, req, isfailed, pgs, sx)
    IN IF Escaped(s)
       THEN t \o CloseCalls \o s
       ELSE t \o CloseCalls \o s \o VideoCalls(config, req, isfailed, pgs, vx)

\* Everything the teardown calls, in order, for the report rep_call and the
\* outcomes sx (of the screenshots) and vx (of the videos).
TeardownCalls(config, req, rep_call, pgs, sx, vx) ==
    LET isfailed == failed(rep_call)
        t == TraceStopCalls(config, req, isfailed)
        s == ScreenshotCalls(config, req, isfailed, pgs, sx)
    IN IF Escaped(s)
       THEN t \o s
       ELSE t \o s \o CloseCalls \o VideoCalls(config, req, isfailed, pgs, vx)

\* The outcomes of the calls the teardown makes.  A call that is not made
\* has no outcome: its entry is the default.
ScreenshotInputs(config, rep_call, pgs) ==
    IF capture_screenshot(config, failed(rep_call))
    THEN {sx \in [1..Len(pgs) -> ScreenshotExcs] :
            \A i, j \in 1..Len(pgs) : (i < j /\ sx[i] = "OSError") => sx[j] = "none"}
    ELSE {[i \in 1..Len(pgs) |-> "none"]}

VideoInputs(config, rep_call, pgs, sx) ==
    IF preserve_video(config, failed(rep_call)) /\ \A i \in 1..Len(pgs) : sx[i] # "OSError"
    THEN {vx \in [1..Len(pgs) -> VideoOutcomes] :
            /\ \A i \in 1..Len(pgs) : ~pgs[i].video => vx[i] = "ok"
            /\ \A i, j \in 1..Len(pgs) :
                  (i < j /\ vx[i] = "save_as:OSError") => vx[j] = "ok"}
    ELSE {[i \in 1..Len(pgs) |-> "ok"]}

Teardown(rep_call) ==
    /\ pc = "body"
    /\ \E sx \in ScreenshotInputs(pytestconfig, rep_call, pages) :
         \E vx \in VideoInputs(pytestconfig, rep_call, pages, sx) :
           LET td == TeardownCalls(pytestconfig, request, rep_call, pages, sx, vx)
           IN /\ calls' = calls \o td
              /\ pc' = IF Escaped(td) THEN "raised" ELSE "done"
    /\ request' = [request EXCEPT !.rep_call = rep_call]
    /\ UNCHANGED <<pytestconfig, browser_context_args, ran, context_args, pages>>

----------------------------------------------------------------------------

Init ==
    /\ pytestconfig \in Configs
    /\ browser_context_args = BaseArgs
    /\ ran = {}
    /\ pc = "idle"
    /\ request = [nodeid |-> <<>>, marker |-> NoMarker, rep_call |-> "missing"]
    /\ context_args = EmptyDict
    /\ pages = <<>>
    /\ calls = <<>>

Next ==
    \/ \E nodeid \in NodeIds, marker \in Markers : Setup(nodeid, marker)
    \/ \E video \in BOOLEAN : NewPage(video)
    \/ \E rep_call \in RepCalls : Teardown(rep_call)

Spec == Init /\ [][Next]_vars

----------------------------------------------------------------------------
(* Properties *)

Ops(op) == {i \in 1..Len(calls) : calls[i].op = op}
PagesOf(op) == {calls[i].page : i \in Ops(op)}

TornDown == pc \in {"done", "raised"}
Closed == Ops("context.close") # {}
Reported == request.rep_call \in {"passed", "failed"}
TestFailed == request.rep_call = "failed"
AllPages == 1..Len(pages)
VideoPages == {i \in AllPages : pages[i].video}

KeptTraces == {i \in Ops("tracing.stop") : calls[i].path # NoPath}

\* C1: after the teardown of a passed or failed test, tracing.stop was called
\* with a trace.zip path iff --tracing is "on", or "retain-on-failure" and the
\* test failed; "retain-on-failure" with a passed test stops without a path;
\* with "off" no call is ever given a trace.zip path.
C1_TraceKeptIff ==
    /\ (TornDown /\ Reported) =>
         /\ (KeptTraces # {}) <=>
               \/ pytestconfig.tracing = "on"
               \/ pytestconfig.tracing = "retain-on-failure" /\ TestFailed
         /\ \A i \in KeptTraces :
               calls[i].path.root = OutputDir /\ calls[i].path.name = TraceName
         /\ (pytestconfig.tracing = "retain-on-failure" /\ ~TestFailed) =>
               /\ Ops("tracing.stop") # {}
               /\ \A i \in Ops("tracing.stop") : calls[i].path = NoPath
    /\ pytestconfig.tracing = "off" =>
         \A i \in 1..Len(calls) : calls[i].path.name # TraceName

C1_Witness ==
    /\ pc = "done"
    /\ pytestconfig.tracing = "retain-on-failure"
    /\ TestFailed
    /\ KeptTraces # {}

\* C2: once the teardown of a passed or failed test has closed the context,
\* page.screenshot was called once for every page iff --screenshot is "on", or
\* "only-on-failure" and the test failed, and for no page otherwise.
C2_ScreenshotsIff ==
    (Closed /\ Reported) =>
        /\ PagesOf("page.screenshot") =
              IF \/ pytestconfig.screenshot = "on"
                 \/ pytestconfig.screenshot = "only-on-failure" /\ TestFailed
              THEN AllPages
              ELSE {}
        /\ Cardinality(Ops("page.screenshot")) = Cardinality(PagesOf("page.screenshot"))

C2_Witness ==
    /\ pc = "done"
    /\ pytestconfig.screenshot = "only-on-failure"
    /\ TestFailed
    /\ Len(pages) = 2
    /\ PagesOf("page.screenshot") = {1, 2}

OnlyPlaywrightErrors == \A i \in 1..Len(calls) : calls[i].exc \in {"none", "Error"}

\* C4: a teardown in which page.screenshot, video.path and video.save_as
\* raised nothing but the library's Error does not raise: it closed the
\* context, and a loop that handled one page handled every page (every page
\* with a video, for the video loop).
C4_ErrorsSwallowed ==
    (TornDown /\ OnlyPlaywrightErrors) =>
        /\ pc = "done"
        /\ Closed
        /\ PagesOf("page.screenshot") \in {{}, AllPages}
        /\ PagesOf("video.path") \in {{}, VideoPages}

C4_Witness ==
    /\ pc = "done"
    /\ Closed
    /\ Len(pages) = 2
    /\ \E i \in Ops("page.screenshot") : calls[i].page = 1 /\ calls[i].exc = "Error"
    /\ 2 \in PagesOf("page.screenshot")
    /\ \E i \in Ops("video.path") \cup Ops("video.save_as") :
          calls[i].page = 1 /\ calls[i].exc = "Error"
    /\ 2 \in PagesOf("video.path")

Written == {i \in 1..Len(calls) : calls[i].path # NoPath}

\* C5: every path the fixture writes to is the one _build_artifact_test_folder
\* gives for the test's own request, lies in a directory below the output
\* root, and that directory is the directory of no other test of the session.
C5_OwnDirectory ==
    \A i \in Written :
        /\ calls[i].path = _build_artifact_test_folder(request, calls[i].path.name)
        /\ calls[i].path.testdir # <<>>
        /\ \A other \in ran \ {request.nodeid} :
              calls[i].path.testdir # slugify(other)

\* The part of C5 that holds: the path is built for the test's own request
\* and lies in a directory below the output root.
C5_BuiltForOwnRequest ==
    \A i \in Written :
        /\ calls[i].path = _build_artifact_test_folder(request, calls[i].path.name)
        /\ calls[i].path.root = OutputDir
        /\ calls[i].path.testdir = slugify(request.nodeid)
        /\ calls[i].path.testdir # <<>>

TraceDecision(cs) ==
    {cs[i].path : i \in {j \in 1..Len(cs) : cs[j].op = "tracing.stop"}}
ScreenshotDecision(cs) ==
    {<<cs[i].page, cs[i].path>> : i \in {j \in 1..Len(cs) : cs[j].op = "page.screenshot"}}
VideoDecision(cs) ==
    {cs[i].page : i \in {j \in 1..Len(cs) : cs[j].op = "video.path"}}

\* The three phases of the teardown of the same test under the options c,
\* when no call raises.
AltTrace(c) == TraceStopCalls(c, request, failed(request.rep_call))
AltScreenshots(c) ==
    ScreenshotCalls(c, request, failed(request.rep_call), pages, [i \in AllPages |-> "none"])
AltVideos(c) ==
    VideoCalls(c, request, failed(request.rep_call), pages, [i \in AllPages |-> "ok"])

\* C6: the teardown that ran and the teardown of the same test under any
\* options with the same --tracing stop the trace the same way; with the same
\* --screenshot they take the same screenshots; with the same --video they
\* handle the videos of the same pages.
C6_Independent ==
    /\ TornDown =>
         \A c \in {x \in Configs : x.tracing = pytestconfig.tracing} :
            TraceDecision(AltTrace(c)) = TraceDecision(calls)
    /\ Closed =>
         \A c \in {x \in Configs : x.screenshot = pytestconfig.screenshot} :
            ScreenshotDecision(AltScreenshots(c)) = ScreenshotDecision(calls)
    /\ pc = "done" =>
         \A c \in {x \in Configs : x.video = pytestconfig.video} :
            VideoDecision(AltVideos(c)) = VideoDecision(calls)

C6_Witness ==
    /\ pc = "done"
    /\ pytestconfig = [tracing |-> "on", screenshot |-> "only-on-failure", video |-> "off"]
    /\ TestFailed
    /\ Len(pages) = 2
    /\ PagesOf("page.screenshot") = {1, 2}
    /\ PagesOf("video.path") = {}

\* C7: a test whose node has no rep_call is treated as failed: the trace is
\* kept under "retain-on-failure", every page gets a screenshot under
\* "only-on-failure", every page with a video has it handled under
\* "retain-on-failure", and every screenshot is named test-failed-<n>.png.
C7_MissingReportIsFailure ==
    (TornDown /\ request.rep_call = "missing") =>
        /\ pytestconfig.tracing = "retain-on-failure" => KeptTraces # {}
        /\ (Closed /\ pytestconfig.screenshot = "only-on-failure") =>
              PagesOf("page.screenshot") = AllPages
        /\ (pc = "done" /\ pytestconfig.video = "retain-on-failure") =>
              PagesOf("video.path") = VideoPages
        /\ \A i \in Ops("page.screenshot") :
              calls[i].path.name = <<"test-", "failed", "-", IndexStr[calls[i].page], ".png">>

C7_Witness ==
    /\ pc = "done"
    /\ request.rep_call = "missing"
    /\ pytestconfig = [tracing |-> "retain-on-failure", screenshot |-> "only-on-failure",
                       video |-> "retain-on-failure"]
    /\ Len(pages) = 1
    /\ pages[1].video
    /\ KeptTraces # {}
    /\ PagesOf("page.screenshot") = {1}
    /\ PagesOf("video.save_as") = {1}

Rank(op) ==
    CASE op = "browser.new_context" -> 0
      [] op = "tracing.start" -> 1
      [] op = "tracing.stop" -> 2
      [] op = "page.screenshot" -> 3
      [] op = "context.close" -> 4
      [] op \in {"video.path", "video.save_as"} -> 5

\* C8: the calls of the fixture are made in one order: tracing.stop, then the
\* screenshots, then context.close, then the videos; no screenshot follows
\* the close and no video call precedes it.
C8_TeardownOrder ==
    /\ \A i, j \in 1..Len(calls) : i < j => Rank(calls[i].op) <= Rank(calls[j].op)
    /\ Cardinality(Ops("context.close")) <= 1
    /\ Ops("video.path") # {} => Closed

C8_Witness ==
    /\ pc = "done"
    /\ Ops("tracing.stop") # {}
    /\ Ops("page.screenshot") # {}
    /\ Closed
    /\ Ops("video.save_as") # {}

\* C9: tracing.start is called once in the setup iff --tracing is "on" or
\* "retain-on-failure"; tracing.stop is not called before the teardown, and
\* after it was called as often as tracing.start, before the close.
C9_StartStopPaired ==
    /\ pc # "idle" =>
         /\ Cardinality(Ops("tracing.start")) =
               IF pytestconfig.tracing \in {"on", "retain-on-failure"} THEN 1 ELSE 0
         /\ Ops("tracing.start") \subseteq {2}
    /\ pc \in {"idle", "body"} => Ops("tracing.stop") = {}
    /\ TornDown =>
         /\ Cardinality(Ops("tracing.stop")) = Cardinality(Ops("tracing.start"))
         /\ \A i \in Ops("tracing.stop"), j \in Ops("context.close") : i < j
    /\ pytestconfig.tracing = "off" =>
         Ops("tracing.start") = {} /\ Ops("tracing.stop") = {}

C9_Witness ==
    /\ pc = "done"
    /\ pytestconfig.tracing = "retain-on-failure"
    /\ Cardinality(Ops("tracing.start")) = 1
    /\ Cardinality(Ops("tracing.stop")) = 1
    /\ Closed

====
